---- MODULE Spec2Model ----
(***************************************************************************)
(* Model of the transaction ledger of src/parser/parser.rs: parse_data     *)
(* folds a stream of Transaction records over three maps (clients,         *)
(* past_transactions, disputed_transactions) by parse_single_transaction.  *)
(*                                                                         *)
(* A Decimal is modelled by the integer number of 1/10000 units it         *)
(* denotes (20.1234 is 201234, 1.123 is 11230): Decimal addition,          *)
(* subtraction and comparison are exact on the values used here.           *)
(***************************************************************************)
EXTENDS Integers, FiniteSets, TLC

\* Bound of the model: the input stream holds at most MaxRecords records.
MaxRecords == 5

\* Client ids (u16) and transaction ids (u32) of the records of the stream. The
\* code uses an id only as a HashMap key, so ids are interchangeable; two of
\* each give the same-client and cross-client, same-tx and other-tx cases.
ClientIds == {1, 2}
TxIds == {1, 2}

\* Amounts a record of the stream may carry (in 1/10000 units): zero, and the
\* two amounts of test_resolve_chargeback_exists, 1.123 and 20.1234.
Amounts == {0, 11230, 201234}

\* Option<Decimal>::None, the amount of a record that carries none: a value
\* that is no amount of the stream (Some(a) is modelled by a itself).
None == -1

VARIABLES
    clients,                \* ClientHash: client id -> Client
    past_transactions,      \* TransactionHash: tx id -> Transaction (history)
    disputed_transactions,  \* TransactionHash: tx id -> Transaction (open disputes)
    transaction,            \* the record parse_single_transaction was last called on
    pc,                     \* parse_data: "parsing" (in the loop), "output" (after it),
                            \* "error" (returned Err), "panic" (an expect failed)
    nread,                  \* number of records taken from the stream so far
    retired,                \* tx ids charged back, with no Dispute accepted since
    resolved                \* tx ids on which a Resolve has succeeded

vars == <<clients, past_transactions, disputed_transactions, transaction, pc,
          nread, retired, resolved>>

-----------------------------------------------------------------------------
\* Data

\* TransactionType
TransactionType == {"Deposit", "Widthdrawal", "Dispute", "Resolve", "Chargeback"}

\* Transaction { type, client, tx, amount, succeeded }
Transaction(type, client, tx, amount, succeeded) ==
    [type |-> type, client |-> client, tx |-> tx, amount |-> amount,
     succeeded |-> succeeded]

\* What the loop variable `transaction` holds when the stream item is an Err
\* (no record was deserialized).
StreamErr == Transaction("Err", 0, 0, None, FALSE)

\* Mutant: the new account is Client::default(), its id left at 0.
DefaultClient_NoId(id) ==
    [id |-> 0, available |-> 0, held |-> 0, total |-> 0, locked |-> FALSE]

\* Client { id, ..Default::default() }
DefaultClient(id) ==
    [id |-> id, available |-> 0, held |-> 0, total |-> 0, locked |-> FALSE]

\* HashMap::insert: an existing entry under the key is replaced.
Insert(map, key, value) ==
    [k \in DOMAIN map \cup {key} |-> IF k = key THEN value ELSE map[k]]

\* HashMap::remove
Remove(map, key) == [k \in DOMAIN map \ {key} |-> map[k]]

\* The empty HashMap
EmptyMap == [k \in {} |-> 0]

\* The client lookup at the head of parse_single_transaction: the account map
\* with a default account inserted for an unknown client id.
WithClient(cs, id) ==
    IF id \in DOMAIN cs THEN cs ELSE Insert(cs, id, DefaultClient(id))

-----------------------------------------------------------------------------
\* The arms of parse_single_transaction, as functions of the client's account

\* Mutant: the deposit forgets `client.total += amount`.
DepositClient_AvailableOnly(client, amount) ==
    [client EXCEPT !.available = @ + amount]

\* Deposit arm: client.total += amount; client.available += amount
DepositClient(client, amount) ==
    [client EXCEPT !.total = @ + amount, !.available = @ + amount]

\* Mutant: the withdrawal is refused when the amount equals the available funds.
WidthdrawalNotEnoughFund_OrEqual(client, amount) == client.available <= amount

\* Mutant: the withdrawal compares against total instead of available.
WidthdrawalNotEnoughFund_Total(client, amount) == client.total < amount

\* Mutant: the withdrawal is applied without comparing it with the funds.
WidthdrawalNotEnoughFund_Unchecked(client, amount) == FALSE

\* Mutant: a frozen account refuses withdrawals.
WidthdrawalNotEnoughFund_Locked(client, amount) ==
    client.locked \/ client.available < amount

\* Widthdrawal arm, the test `client.available < amount`
WidthdrawalNotEnoughFund(client, amount) == client.available < amount

\* Widthdrawal arm: client.available -= amount; client.total -= amount
WidthdrawalClient(client, amount) ==
    [client EXCEPT !.available = @ - amount, !.total = @ - amount]

\* Dispute arm, the test `past_transaction.r#type == TransactionType::Deposit`
DisputeIsDeposit(past_transaction) == past_transaction.type = "Deposit"

\* Mutant: the dispute does not check the available funds.
DisputeNotEnoughFund_Unchecked(client, amount) == FALSE

\* Dispute arm, the test `client.available < amount`
DisputeNotEnoughFund(client, amount) == client.available < amount

\* Mutant: the dispute looks the tx id up among the client's own transactions.
DisputeAccepted_PerClient(client, past, tx) ==
    /\ tx \in DOMAIN past
    /\ past[tx].client = client.id
    /\ DisputeIsDeposit(past[tx])
    /\ ~DisputeNotEnoughFund(client, past[tx].amount)

\* Dispute arm, the three tests a Dispute of `tx` by `client` has to pass:
\* `past_transactions.get(&transaction.tx)` is Some, it is a Deposit, and the
\* client's available covers its amount.
DisputeAccepted(client, past, tx) ==
    /\ tx \in DOMAIN past
    /\ DisputeIsDeposit(past[tx])
    /\ ~DisputeNotEnoughFund(client, past[tx].amount)

\* Mutant: the dispute holds the amount without taking it from available.
DisputeClient_KeepsAvailable(client, amount) ==
    [client EXCEPT !.held = @ + amount]

\* Dispute arm: client.held += amount; client.available -= amount
DisputeClient(client, amount) ==
    [client EXCEPT !.held = @ + amount, !.available = @ - amount]

\* Mutant: the dispute files the entry under the client id instead of the tx id.
DisputeInsert_ByClient(disputed, past_transaction) ==
    Insert(disputed, past_transaction.client, past_transaction)

\* Dispute arm: disputed_transactions.insert(past_transaction.tx, past_transaction.clone())
DisputeInsert(disputed, past_transaction) ==
    Insert(disputed, past_transaction.tx, past_transaction)

\* Resolve arm: the map `match disputed_transactions.get(&transaction.tx)` reads
ResolveLookup(past, disputed) == disputed

\* Mutant: a resolved dispute unfreezes the account.
ResolveClient_Unlocks(client, amount) ==
    [client EXCEPT !.held = @ - amount, !.available = @ + amount, !.locked = FALSE]

\* Resolve arm: client.held -= amount; client.available += amount
ResolveClient(client, amount) ==
    [client EXCEPT !.held = @ - amount, !.available = @ + amount]

\* Mutant: the resolve leaves the entry in the disputed set.
ResolveRemove_Keeps(disputed, tx) == disputed

\* Resolve arm: disputed_transactions.remove(&transaction.tx)
ResolveRemove(disputed, tx) == Remove(disputed, tx)

\* Mutant: the chargeback looks the tx id up in the history.
ChargebackLookup_History(past, disputed) == past

\* Chargeback arm: the map `match disputed_transactions.get(&transaction.tx)` reads
ChargebackLookup(past, disputed) == disputed

\* Mutant: the chargeback forgets `client.total -= amount`.
ChargebackClient_KeepsTotal(client, amount) ==
    [client EXCEPT !.held = @ - amount, !.locked = TRUE]

\* Mutant: the chargeback takes the amount from available instead of held.
ChargebackClient_FromAvailable(client, amount) ==
    [client EXCEPT !.available = @ - amount, !.total = @ - amount, !.locked = TRUE]

\* Chargeback arm: client.held -= amount; client.total -= amount; client.locked = true
ChargebackClient(client, amount) ==
    [client EXCEPT !.held = @ - amount, !.total = @ - amount, !.locked = TRUE]

\* Mutant: the chargeback leaves the entry in the disputed set.
ChargebackRemove_Keeps(disputed, tx) == disputed

\* Chargeback arm: disputed_transactions.remove(&transaction.tx)
ChargebackRemove(disputed, tx) == Remove(disputed, tx)

-----------------------------------------------------------------------------
\* State machine

\* parse_data before its loop: three empty maps, nothing read.
Init ==
    /\ clients = EmptyMap
    /\ past_transactions = EmptyMap
    /\ disputed_transactions = EmptyMap
    /\ transaction = Transaction("Deposit", 0, 0, None, FALSE)
    /\ pc = "parsing"
    /\ nread = 0
    /\ retired = {}
    /\ resolved = {}

\* The loop of parse_data takes the next record of the stream.
NextRecord ==
    /\ pc = "parsing"
    /\ nread < MaxRecords
    /\ nread' = nread + 1

\* Mutant: a reconciliation pass. A Deposit that follows a Dispute rejected for
\* its missing transaction applies that Dispute after the deposit.
Deposit_Reconciles(c, tx, amount) ==
    /\ NextRecord
    /\ LET cs == WithClient(clients, c)
           t == Transaction("Deposit", c, tx, amount, TRUE)
           deposited == DepositClient(cs[c], amount)
           retry == /\ transaction.type = "Dispute"
                    /\ ~transaction.succeeded
                    /\ transaction.tx = tx
                    /\ transaction.client = c
                    /\ tx \notin DOMAIN past_transactions
       IN  /\ clients' = [cs EXCEPT ![c] =
                             IF retry THEN DisputeClient(deposited, amount) ELSE deposited]
           /\ disputed_transactions' =
                  IF retry THEN DisputeInsert(disputed_transactions, t)
                  ELSE disputed_transactions
           /\ past_transactions' = Insert(past_transactions, tx, t)
           /\ transaction' = t
    /\ UNCHANGED <<pc, retired, resolved>>

\* A Deposit record with an amount.
Deposit(c, tx, amount) ==
    /\ NextRecord
    /\ LET cs == WithClient(clients, c)
           t == Transaction("Deposit", c, tx, amount, TRUE)
       IN  /\ clients' = [cs EXCEPT ![c] = DepositClient(cs[c], amount)]
           /\ past_transactions' = Insert(past_transactions, tx, t)
           /\ transaction' = t
    /\ UNCHANGED <<disputed_transactions, pc, retired, resolved>>

\* Mutant: a withdrawal without enough funds returns an Err from
\* parse_single_transaction, which `?` hands on out of parse_data.
Widthdrawal_HaltsOnReject(c, tx, amount) ==
    /\ NextRecord
    /\ LET cs == WithClient(clients, c)
           t == Transaction("Widthdrawal", c, tx, amount, TRUE)
       IN  IF WidthdrawalNotEnoughFund(cs[c], amount)
           THEN /\ clients' = cs
                /\ transaction' = [t EXCEPT !.succeeded = FALSE]
                /\ pc' = "error"
                /\ UNCHANGED past_transactions
           ELSE /\ clients' = [cs EXCEPT ![c] = WidthdrawalClient(cs[c], amount)]
                /\ past_transactions' = Insert(past_transactions, tx, t)
                /\ transaction' = t
                /\ UNCHANGED pc
    /\ UNCHANGED <<disputed_transactions, retired, resolved>>

\* A Widthdrawal record with an amount.
Widthdrawal(c, tx, amount) ==
    /\ NextRecord
    /\ LET cs == WithClient(clients, c)
           t == Transaction("Widthdrawal", c, tx, amount, TRUE)
       IN  IF WidthdrawalNotEnoughFund(cs[c], amount)
           THEN /\ clients' = cs
                /\ transaction' = [t EXCEPT !.succeeded = FALSE]
                /\ UNCHANGED past_transactions
           ELSE /\ clients' = [cs EXCEPT ![c] = WidthdrawalClient(cs[c], amount)]
                /\ past_transactions' = Insert(past_transactions, tx, t)
                /\ transaction' = t
    /\ UNCHANGED <<disputed_transactions, pc, retired, resolved>>

\* Mutant: a record without amount is logged and skipped like a rejected one.
MissingAmount_Skips(type, c, tx) ==
    /\ NextRecord
    /\ clients' = WithClient(clients, c)
    /\ transaction' = Transaction(type, c, tx, None, FALSE)
    /\ UNCHANGED <<past_transactions, disputed_transactions, pc, retired, resolved>>

\* A Deposit or Widthdrawal record without amount: `.expect("no amount")`
\* panics, after the client lookup has inserted the account.
MissingAmount(type, c, tx) ==
    /\ NextRecord
    /\ clients' = WithClient(clients, c)
    /\ transaction' = Transaction(type, c, tx, None, FALSE)
    /\ pc' = "panic"
    /\ UNCHANGED <<past_transactions, disputed_transactions, retired, resolved>>

\* Mutant: an accepted Dispute moves the entry out of history into the
\* disputed set.
Dispute_MovesEntry(c, tx) ==
    /\ NextRecord
    /\ LET cs == WithClient(clients, c)
           t == Transaction("Dispute", c, tx, None, TRUE)
       IN  IF DisputeAccepted(cs[c], past_transactions, tx)
           THEN /\ clients' = [cs EXCEPT ![c] =
                                  DisputeClient(cs[c], past_transactions[tx].amount)]
                /\ disputed_transactions' =
                       DisputeInsert(disputed_transactions, past_transactions[tx])
                /\ past_transactions' = Remove(past_transactions, tx)
                /\ transaction' = t
                /\ retired' = retired \ {tx}
           ELSE /\ clients' = cs
                /\ transaction' = [t EXCEPT !.succeeded = FALSE]
                /\ UNCHANGED <<past_transactions, disputed_transactions, retired>>
    /\ UNCHANGED <<pc, resolved>>

\* A Dispute record.
Dispute(c, tx) ==
    /\ NextRecord
    /\ LET cs == WithClient(clients, c)
           t == Transaction("Dispute", c, tx, None, TRUE)
       IN  IF DisputeAccepted(cs[c], past_transactions, tx)
           THEN /\ clients' = [cs EXCEPT ![c] =
                                  DisputeClient(cs[c], past_transactions[tx].amount)]
                /\ disputed_transactions' =
                       DisputeInsert(disputed_transactions, past_transactions[tx])
                /\ transaction' = t
                /\ retired' = retired \ {tx}
           ELSE /\ clients' = cs
                /\ transaction' = [t EXCEPT !.succeeded = FALSE]
                /\ UNCHANGED <<disputed_transactions, retired>>
    /\ UNCHANGED <<past_transactions, pc, resolved>>

\* A Resolve record.
Resolve(c, tx) ==
    /\ NextRecord
    /\ LET cs == WithClient(clients, c)
           t == Transaction("Resolve", c, tx, None, TRUE)
           found == ResolveLookup(past_transactions, disputed_transactions)
       IN  IF tx \in DOMAIN found
           THEN /\ clients' = [cs EXCEPT ![c] = ResolveClient(cs[c], found[tx].amount)]
                /\ disputed_transactions' = ResolveRemove(disputed_transactions, tx)
                /\ transaction' = t
                /\ resolved' = resolved \cup {tx}
           ELSE /\ clients' = cs
                /\ transaction' = [t EXCEPT !.succeeded = FALSE]
                /\ UNCHANGED <<disputed_transactions, resolved>>
    /\ UNCHANGED <<past_transactions, pc, retired>>

\* Mutant: the chargeback is applied to the account of the client that made
\* the deposit instead of the record's client.
Chargeback_OnDepositor(c, tx) ==
    /\ NextRecord
    /\ LET cs == WithClient(clients, c)
           t == Transaction("Chargeback", c, tx, None, TRUE)
           found == ChargebackLookup(past_transactions, disputed_transactions)
       IN  IF tx \in DOMAIN found
           THEN /\ clients' = [WithClient(cs, found[tx].client)
                                   EXCEPT ![found[tx].client] =
                                       ChargebackClient(@, found[tx].amount)]
                /\ disputed_transactions' = ChargebackRemove(disputed_transactions, tx)
                /\ transaction' = t
                /\ retired' = retired \cup {tx}
           ELSE /\ clients' = cs
                /\ transaction' = [t EXCEPT !.succeeded = FALSE]
                /\ UNCHANGED <<disputed_transactions, retired>>
    /\ UNCHANGED <<past_transactions, pc, resolved>>

\* A Chargeback record.
Chargeback(c, tx) ==
    /\ NextRecord
    /\ LET cs == WithClient(clients, c)
           t == Transaction("Chargeback", c, tx, None, TRUE)
           found == ChargebackLookup(past_transactions, disputed_transactions)
       IN  IF tx \in DOMAIN found
           THEN /\ clients' = [cs EXCEPT ![c] = ChargebackClient(cs[c], found[tx].amount)]
                /\ disputed_transactions' = ChargebackRemove(disputed_transactions, tx)
                /\ transaction' = t
                /\ retired' = retired \cup {tx}
           ELSE /\ clients' = cs
                /\ transaction' = [t EXCEPT !.succeeded = FALSE]
                /\ UNCHANGED <<disputed_transactions, retired>>
    /\ UNCHANGED <<past_transactions, pc, resolved>>

\* The stream yields an Err item (a record that does not deserialize):
\* `transaction?` returns it from parse_data.
StreamError ==
    /\ NextRecord
    /\ pc' = "error"
    /\ transaction' = StreamErr
    /\ UNCHANGED <<clients, past_transactions, disputed_transactions, retired, resolved>>

\* The stream is exhausted: parse_data leaves the loop and writes the accounts.
StreamEnd ==
    /\ pc = "parsing"
    /\ pc' = "output"
    /\ UNCHANGED <<clients, past_transactions, disputed_transactions, transaction,
                   nread, retired, resolved>>

Next ==
    \/ \E c \in ClientIds, tx \in TxIds, amount \in Amounts : Deposit(c, tx, amount)
    \/ \E c \in ClientIds, tx \in TxIds, amount \in Amounts : Widthdrawal(c, tx, amount)
    \/ \E type \in {"Deposit", "Widthdrawal"}, c \in ClientIds, tx \in TxIds :
          MissingAmount(type, c, tx)
    \/ \E c \in ClientIds, tx \in TxIds : Dispute(c, tx)
    \/ \E c \in ClientIds, tx \in TxIds : Resolve(c, tx)
    \/ \E c \in ClientIds, tx \in TxIds : Chargeback(c, tx)
    \/ StreamError
    \/ StreamEnd

Spec == Init /\ [][Next]_vars

-----------------------------------------------------------------------------
\* Vocabulary of the properties

\* The account of client c as an observer of the account map sees it: an
\* account not created yet reads as the all-zero, unlocked default.
Account(cs, c) == IF c \in DOMAIN cs THEN cs[c] ELSE DefaultClient(c)

\* This step is a call of parse_single_transaction on a record of kind `type`.
Called(type) == nread' = nread + 1 /\ transaction'.type = type

\* No account's balances or locked flag change in this step (an account the
\* step creates starts all-zero and unlocked).
AccountsUnchanged == \A c \in ClientIds : Account(clients', c) = Account(clients, c)

-----------------------------------------------------------------------------
\* C1: after every record processed by parse_single_transaction, applied or
\* rejected, every account of the account map has total = available + held.
C1_TotalIsAvailablePlusHeld ==
    \A c \in DOMAIN clients :
        clients[c].total = clients[c].available + clients[c].held

\* A rejected record has just been processed while an account holds funds in
\* both available and held.
C1_Witness ==
    /\ nread > 0
    /\ pc = "parsing"
    /\ ~transaction.succeeded
    /\ \E c \in DOMAIN clients : clients[c].held > 0 /\ clients[c].available > 0

\* C2: locked is monotonic: an account that is locked stays in the account map
\* and stays locked in every later state, whatever record is processed.
C2_LockedIsMonotonic ==
    [][\A c \in DOMAIN clients :
           clients[c].locked => (c \in DOMAIN clients' /\ clients'[c].locked)]_vars

\* A Dispute has been accepted for a client whose account is locked.
C2_Witness ==
    /\ transaction.type = "Dispute"
    /\ transaction.succeeded
    /\ transaction.client \in DOMAIN clients
    /\ clients[transaction.client].locked
    /\ clients[transaction.client].held > 0

\* C3: a Chargeback on a tx id of the disputed set decreases held and total of
\* the record's client by the disputed amount, leaves available unchanged,
\* sets locked, removes the tx id from the disputed set and leaves the history
\* as it is, the entry of the tx id included.
C3_ChargebackStep ==
    (Called("Chargeback") /\ transaction'.tx \in DOMAIN disputed_transactions) =>
        LET c == transaction'.client
            tx == transaction'.tx
            amount == disputed_transactions[tx].amount
            before == Account(clients, c)
        IN  /\ transaction'.succeeded
            /\ c \in DOMAIN clients'
            /\ clients'[c].held = before.held - amount
            /\ clients'[c].total = before.total - amount
            /\ clients'[c].available = before.available
            /\ clients'[c].locked
            /\ DOMAIN disputed_transactions' = DOMAIN disputed_transactions \ {tx}
            /\ past_transactions' = past_transactions
            /\ tx \in DOMAIN past_transactions'

\* The run Deposit(c1,tx1,20.1234), Deposit(c1,tx2,1.123), Dispute(c1,tx2),
\* Chargeback(c1,tx2) has just been processed (the two deposits in either
\* order): the only runs of four records that leave one account, these two
\* history entries and an accepted Chargeback of tx2 as the last record.
C3_ExampleRun ==
    /\ nread = 4
    /\ DOMAIN clients = {1}
    /\ DOMAIN past_transactions = {1, 2}
    /\ past_transactions[1] = Transaction("Deposit", 1, 1, 201234, TRUE)
    /\ past_transactions[2] = Transaction("Deposit", 1, 2, 11230, TRUE)
    /\ transaction = Transaction("Chargeback", 1, 2, None, TRUE)

C3_ChargebackEffect ==
    /\ [][C3_ChargebackStep]_vars
    /\ [](C3_ExampleRun =>
            /\ clients[1] = [id |-> 1, available |-> 201234, held |-> 0,
                             total |-> 201234, locked |-> TRUE]
            /\ DOMAIN disputed_transactions = {})

\* The example run has been processed.
C3_Witness == C3_ExampleRun /\ pc = "parsing"

\* C4: after a successful Chargeback on tx id T (and no Dispute on T accepted
\* since), a Dispute on T is rejected, with no change to any balance or to the
\* disputed set, whatever the client's available balance is.
C4_DisputeAfterChargebackFails ==
    [][(Called("Dispute") /\ transaction'.tx \in retired) =>
           /\ ~transaction'.succeeded
           /\ AccountsUnchanged
           /\ disputed_transactions' = disputed_transactions]_vars

\* C5: after a successful Chargeback on tx id T, and for as long as no new
\* Dispute on T has been accepted, a Resolve or a Chargeback on T is rejected
\* and changes no balance, no locked flag, not the history and not the
\* disputed set.
C5_RetiredStep ==
    ((Called("Resolve") \/ Called("Chargeback")) /\ transaction'.tx \in retired) =>
        /\ ~transaction'.succeeded
        /\ AccountsUnchanged
        /\ past_transactions' = past_transactions
        /\ disputed_transactions' = disputed_transactions

C5_ResolveChargebackAfterChargebackNoOp == [][C5_RetiredStep]_vars

\* A Resolve has just been rejected on a charged-back tx id, for the client
\* the chargeback locked, who still has funds.
C5_Witness ==
    /\ transaction.type = "Resolve"
    /\ ~transaction.succeeded
    /\ transaction.tx \in retired
    /\ clients[transaction.client].locked
    /\ clients[transaction.client].total > 0

\* C6: a Dispute on a tx id whose history entry is a Deposit of amount a, by a
\* client whose available is at least a, moves exactly a from available to
\* held, leaves total and locked unchanged, puts the tx id in the disputed set
\* and leaves the history unchanged.
C6_DisputeStep ==
    (/\ Called("Dispute")
     /\ transaction'.tx \in DOMAIN past_transactions
     /\ past_transactions[transaction'.tx].type = "Deposit"
     /\ Account(clients, transaction'.client).available
            >= past_transactions[transaction'.tx].amount) =>
        LET c == transaction'.client
            tx == transaction'.tx
            a == past_transactions[tx].amount
            before == Account(clients, c)
        IN  /\ transaction'.succeeded
            /\ c \in DOMAIN clients'
            /\ clients'[c].available = before.available - a
            /\ clients'[c].held = before.held + a
            /\ clients'[c].total = before.total
            /\ clients'[c].locked = before.locked
            /\ tx \in DOMAIN disputed_transactions'
            /\ past_transactions' = past_transactions

C6_DisputeMovesAmountToHeld == [][C6_DisputeStep]_vars

\* A Dispute of a Deposit of a positive amount has just been accepted, and part
\* of the client's funds stays available.
C6_Witness ==
    /\ transaction.type = "Dispute"
    /\ transaction.succeeded
    /\ past_transactions[transaction.tx].amount > 0
    /\ clients[transaction.client].held = past_transactions[transaction.tx].amount
    /\ clients[transaction.client].available > 0

\* C7: a Dispute by a client that already has an account changes nothing when
\* a precondition is unmet (the tx id is not in history, or its history entry
\* is a Widthdrawal, or the client's available is less than the deposit
\* amount): accounts, history and disputed set are unchanged.
C7_DisputeStep ==
    (/\ Called("Dispute")
     /\ transaction'.client \in DOMAIN clients
     /\ \/ transaction'.tx \notin DOMAIN past_transactions
        \/ past_transactions[transaction'.tx].type = "Widthdrawal"
        \/ clients[transaction'.client].available
               < past_transactions[transaction'.tx].amount) =>
        /\ ~transaction'.succeeded
        /\ clients' = clients
        /\ past_transactions' = past_transactions
        /\ disputed_transactions' = disputed_transactions

C7_RejectedDisputeNoOp == [][C7_DisputeStep]_vars

\* A Dispute of a Deposit has just been rejected for lack of available funds,
\* for a client that holds funds (so had an account before the record).
C7_Witness ==
    /\ transaction.type = "Dispute"
    /\ ~transaction.succeeded
    /\ transaction.tx \in DOMAIN past_transactions
    /\ past_transactions[transaction.tx].type = "Deposit"
    /\ clients[transaction.client].total > 0
    /\ clients[transaction.client].available < past_transactions[transaction.tx].amount

\* C8: a Resolve on a tx id of the disputed set moves the disputed amount back
\* from held to available, leaves total and locked unchanged, removes the tx
\* id from the disputed set and keeps the history, so that a later Dispute on
\* the tx id can be accepted again: where the history entry is still the
\* disputed one, the Dispute arm accepts the same client's Dispute of the tx id
\* in the resulting state.
C8_ResolveStep ==
    (Called("Resolve") /\ transaction'.tx \in DOMAIN disputed_transactions) =>
        LET c == transaction'.client
            tx == transaction'.tx
            a == disputed_transactions[tx].amount
            before == Account(clients, c)
        IN  /\ transaction'.succeeded
            /\ c \in DOMAIN clients'
            /\ clients'[c].held = before.held - a
            /\ clients'[c].available = before.available + a
            /\ clients'[c].total = before.total
            /\ clients'[c].locked = before.locked
            /\ DOMAIN disputed_transactions' = DOMAIN disputed_transactions \ {tx}
            /\ past_transactions' = past_transactions
            /\ tx \in DOMAIN past_transactions'
            /\ (past_transactions[tx] = disputed_transactions[tx]
                   => DisputeAccepted(clients'[c], past_transactions', tx))

C8_ResolveReleasesHeld == [][C8_ResolveStep]_vars

\* A Dispute has just been accepted on a tx id that was resolved before.
C8_Witness ==
    /\ transaction.type = "Dispute"
    /\ transaction.succeeded
    /\ transaction.tx \in resolved
    /\ past_transactions[transaction.tx].amount > 0
    /\ clients[transaction.client].held > 0

\* C9: a Resolve or a Chargeback whose tx id is not in the disputed set, by a
\* client that already has an account, changes nothing: accounts, history and
\* disputed set are unchanged.
C9_UndisputedStep ==
    (/\ Called("Resolve") \/ Called("Chargeback")
     /\ transaction'.client \in DOMAIN clients
     /\ transaction'.tx \notin DOMAIN disputed_transactions) =>
        /\ ~transaction'.succeeded
        /\ clients' = clients
        /\ past_transactions' = past_transactions
        /\ disputed_transactions' = disputed_transactions

C9_UndisputedResolveChargebackNoOp == [][C9_UndisputedStep]_vars

\* A Chargeback has just been rejected on a tx id that is in history and not
\* under dispute, while another tx id is.
C9_Witness ==
    /\ transaction.type = "Chargeback"
    /\ ~transaction.succeeded
    /\ transaction.tx \in DOMAIN past_transactions
    /\ transaction.tx \notin DOMAIN disputed_transactions
    /\ DOMAIN disputed_transactions # {}
    /\ clients[transaction.client].held > 0

\* C10: a Widthdrawal with amount > available leaves the client's account, the
\* history and the disputed set unchanged (so no entry is stored for its tx
\* id), and parse_data stays in its loop.
C10_WidthdrawalStep ==
    (/\ Called("Widthdrawal")
     /\ transaction'.amount # None
     /\ transaction'.amount > Account(clients, transaction'.client).available) =>
        /\ ~transaction'.succeeded
        /\ Account(clients', transaction'.client) = Account(clients, transaction'.client)
        /\ past_transactions' = past_transactions
        /\ disputed_transactions' = disputed_transactions
        /\ pc' = "parsing"

C10_RejectedWidthdrawalNoOp == [][C10_WidthdrawalStep]_vars

\* A Widthdrawal of more than the (positive) available has just been rejected;
\* its tx id is not in history.
C10_Witness ==
    /\ transaction.type = "Widthdrawal"
    /\ transaction.amount # None
    /\ ~transaction.succeeded
    /\ pc = "parsing"
    /\ clients[transaction.client].available > 0
    /\ transaction.amount > clients[transaction.client].available
    /\ transaction.tx \notin DOMAIN past_transactions

\* C11: a Widthdrawal with amount <= available (amount = available included)
\* decreases available and total by exactly the amount, leaves held and locked
\* unchanged, and stores the record in history under its tx id.
C11_WidthdrawalStep ==
    (/\ Called("Widthdrawal")
     /\ transaction'.amount # None
     /\ transaction'.amount <= Account(clients, transaction'.client).available) =>
        LET c == transaction'.client
            tx == transaction'.tx
            amount == transaction'.amount
            before == Account(clients, c)
        IN  /\ transaction'.succeeded
            /\ c \in DOMAIN clients'
            /\ clients'[c].available = before.available - amount
            /\ clients'[c].total = before.total - amount
            /\ clients'[c].held = before.held
            /\ clients'[c].locked = before.locked
            /\ tx \in DOMAIN past_transactions'
            /\ past_transactions'[tx] = Transaction("Widthdrawal", c, tx, amount, TRUE)
            /\ \A t \in DOMAIN past_transactions \ {tx} :
                   t \in DOMAIN past_transactions'
                   /\ past_transactions'[t] = past_transactions[t]
            /\ pc' = "parsing"

C11_AcceptedWidthdrawal == [][C11_WidthdrawalStep]_vars

\* A Widthdrawal of exactly the (positive) available has just been accepted: it
\* is in history and available is 0, while funds are still held.
C11_Witness ==
    /\ transaction.type = "Widthdrawal"
    /\ transaction.succeeded
    /\ transaction.amount > 0
    /\ past_transactions[transaction.tx] = transaction
    /\ clients[transaction.client].available = 0
    /\ clients[transaction.client].held > 0

\* The sum of the amounts of the entries of a transaction map.
RECURSIVE SumAmounts(_)
SumAmounts(map) ==
    IF DOMAIN map = {} THEN 0
    ELSE LET k == CHOOSE k \in DOMAIN map : TRUE
         IN  map[k].amount + SumAmounts(Remove(map, k))

\* The records read so far are Deposits of client c with distinct tx ids, and
\* nothing else: every record read added a history key (so each was a Deposit
\* or accepted Widthdrawal with a fresh tx id, and none was replaced since),
\* every entry is a Deposit of c, and no other client was ever referenced.
DepositOnlyRun(c) ==
    /\ nread = Cardinality(DOMAIN past_transactions)
    /\ \A t \in DOMAIN past_transactions :
           past_transactions[t].type = "Deposit" /\ past_transactions[t].client = c
    /\ DOMAIN clients \subseteq {c}

\* C12: in a run of Deposit records only, all of one client and with distinct
\* tx ids, after each record available = total = the sum of the amounts
\* deposited so far, held = 0, locked = false, and history holds one entry per
\* deposit.
C12_DepositStep ==
    \A c \in ClientIds :
        (/\ DepositOnlyRun(c)
         /\ Called("Deposit")
         /\ transaction'.client = c
         /\ transaction'.amount # None
         /\ transaction'.tx \notin DOMAIN past_transactions) =>
            /\ DOMAIN past_transactions' = DOMAIN past_transactions \cup {transaction'.tx}
            /\ past_transactions'[transaction'.tx] =
                   Transaction("Deposit", c, transaction'.tx, transaction'.amount, TRUE)
            /\ \A t \in DOMAIN past_transactions :
                   past_transactions'[t] = past_transactions[t]
            /\ Cardinality(DOMAIN past_transactions') = nread'
            /\ clients'[c].available = SumAmounts(past_transactions) + transaction'.amount

C12_DepositOnlyBalances ==
    /\ [][C12_DepositStep]_vars
    /\ [](\A c \in ClientIds :
            (DepositOnlyRun(c) /\ nread > 0) =>
                /\ clients[c].available = SumAmounts(past_transactions)
                /\ clients[c].total = SumAmounts(past_transactions)
                /\ clients[c].held = 0
                /\ ~clients[c].locked)

\* Two deposits of client 1, of 1.123 and 20.1234, have been processed.
C12_Witness ==
    /\ DepositOnlyRun(1)
    /\ nread = 2
    /\ clients[1].available = 212464
    /\ clients[1].total = 212464

\* C13, as claimed: history and disputed-set membership exclude each other, no
\* tx id is in the history map and in the disputed map at once.
C13_HistoryAndDisputedExclusive ==
    DOMAIN past_transactions \cap DOMAIN disputed_transactions = {}

\* C13, amended: the disputed map is a part of the history: every tx id of the
\* disputed map is in the history map too, and its disputed entry is a Deposit
\* that was stored in history under that tx id.
C13_DisputedWithinHistory ==
    \A tx \in DOMAIN disputed_transactions :
        /\ tx \in DOMAIN past_transactions
        /\ disputed_transactions[tx].type = "Deposit"
        /\ disputed_transactions[tx].tx = tx
        /\ disputed_transactions[tx].succeeded
        /\ disputed_transactions[tx].amount # None

\* A Dispute has just been accepted: its tx id is in both maps, as
\* test_dispute_tx_exists asserts (history of length 2, disputed of length 1).
C13_Witness ==
    /\ transaction.type = "Dispute"
    /\ transaction.succeeded
    /\ transaction.tx \in DOMAIN past_transactions
    /\ transaction.tx \in DOMAIN disputed_transactions
    /\ Cardinality(DOMAIN past_transactions) = 2
    /\ Cardinality(DOMAIN disputed_transactions) = 1

\* C14: the tx id lookup is global. A Dispute, Resolve or Chargeback of a
\* client c that references the Deposit of another client d is decided on the
\* one history / disputed map and on c's account, its effect goes to c's
\* account, and d's account is left unchanged.
C14_CrossClientDispute ==
    (/\ Called("Dispute")
     /\ transaction'.tx \in DOMAIN past_transactions
     /\ past_transactions[transaction'.tx].type = "Deposit"
     /\ past_transactions[transaction'.tx].client # transaction'.client) =>
        LET c == transaction'.client
            d == past_transactions[transaction'.tx].client
            a == past_transactions[transaction'.tx].amount
            before == Account(clients, c)
        IN  /\ transaction'.succeeded <=> before.available >= a
            /\ transaction'.succeeded =>
                   /\ clients'[c].available = before.available - a
                   /\ clients'[c].held = before.held + a
                   /\ transaction'.tx \in DOMAIN disputed_transactions'
            /\ ~transaction'.succeeded =>
                   /\ Account(clients', c) = before
                   /\ disputed_transactions' = disputed_transactions
            /\ Account(clients', d) = Account(clients, d)

C14_CrossClientSettle ==
    (/\ Called("Resolve") \/ Called("Chargeback")
     /\ transaction'.tx \in DOMAIN disputed_transactions
     /\ disputed_transactions[transaction'.tx].client # transaction'.client) =>
        LET c == transaction'.client
            d == disputed_transactions[transaction'.tx].client
            a == disputed_transactions[transaction'.tx].amount
            before == Account(clients, c)
        IN  /\ transaction'.succeeded
            /\ clients'[c].held = before.held - a
            /\ transaction'.type = "Resolve" =>
                   /\ clients'[c].available = before.available + a
                   /\ clients'[c].total = before.total
                   /\ clients'[c].locked = before.locked
            /\ transaction'.type = "Chargeback" =>
                   /\ clients'[c].available = before.available
                   /\ clients'[c].total = before.total - a
                   /\ clients'[c].locked
            /\ transaction'.tx \notin DOMAIN disputed_transactions'
            /\ Account(clients', d) = Account(clients, d)

C14_GlobalTxLookup == [][C14_CrossClientDispute /\ C14_CrossClientSettle]_vars

\* A client has just had a Dispute accepted on a Deposit of a positive amount
\* made by another client, whose account still shows the deposit as available.
C14_Witness ==
    /\ transaction.type = "Dispute"
    /\ transaction.succeeded
    /\ past_transactions[transaction.tx].client # transaction.client
    /\ past_transactions[transaction.tx].amount > 0
    /\ clients[transaction.client].held = past_transactions[transaction.tx].amount
    /\ clients[past_transactions[transaction.tx].client].available
           >= past_transactions[transaction.tx].amount
    /\ clients[past_transactions[transaction.tx].client].held = 0

\* C15: an account is created, all-zero and unlocked, the first time a record
\* references its client id, also when the record is then rejected, and no
\* account is ever removed from the account map. The record's own arm then
\* works on the new account: a rejected record leaves it all-zero, a Deposit
\* leaves its amount in available and total.
C15_Step ==
    /\ DOMAIN clients \subseteq DOMAIN clients'
    /\ \A c \in ClientIds :
           (c \notin DOMAIN clients /\ nread' = nread + 1 /\ transaction'.client = c) =>
               /\ c \in DOMAIN clients'
               /\ DOMAIN clients' = DOMAIN clients \cup {c}
               /\ clients'[c].id = c
               /\ ~transaction'.succeeded =>
                      clients'[c] = [id |-> c, available |-> 0, held |-> 0,
                                     total |-> 0, locked |-> FALSE]
               /\ (transaction'.succeeded /\ transaction'.type = "Deposit") =>
                      clients'[c] = [id |-> c, available |-> transaction'.amount,
                                     held |-> 0, total |-> transaction'.amount,
                                     locked |-> FALSE]
    /\ \A c \in ClientIds :
           (c \notin DOMAIN clients /\ c \in DOMAIN clients') =>
               (nread' = nread + 1 /\ transaction'.client = c)

C15_AccountsCreatedLazily == [][C15_Step]_vars

\* A Dispute on an unknown tx id has just been rejected for a client that has
\* only the all-zero account this record created, beside a funded account.
C15_Witness ==
    /\ transaction.type = "Dispute"
    /\ ~transaction.succeeded
    /\ transaction.tx \notin DOMAIN past_transactions
    /\ clients[transaction.client] =
           [id |-> transaction.client, available |-> 0, held |-> 0, total |-> 0,
            locked |-> FALSE]
    /\ \E d \in DOMAIN clients : clients[d].total > 0
    /\ nread = 2

\* C16: a Deposit or Widthdrawal whose tx id is already in history is rejected:
\* the record is skipped, no balance changes and the history entry of the tx
\* id stays as it was.
C16_DuplicateTxRejected ==
    [][(/\ Called("Deposit") \/ Called("Widthdrawal")
        /\ transaction'.amount # None
        /\ transaction'.tx \in DOMAIN past_transactions) =>
           /\ ~transaction'.succeeded
           /\ AccountsUnchanged
           /\ past_transactions' = past_transactions]_vars

\* C17: a Deposit or Widthdrawal record with no amount halts the run at that
\* record: it changes no balance, history or disputed entry, and after it no
\* further record is read and the output step is never reached.
C17_MissingAmountStep ==
    (/\ Called("Deposit") \/ Called("Widthdrawal")
     /\ transaction'.amount = None) =>
        /\ pc' = "panic"
        /\ ~transaction'.succeeded
        /\ AccountsUnchanged
        /\ past_transactions' = past_transactions
        /\ disputed_transactions' = disputed_transactions

C17_MissingAmountHalts ==
    /\ [][C17_MissingAmountStep]_vars
    /\ [][pc # "panic"]_vars

\* The run has stopped at a Widthdrawal without amount, before the end of the
\* stream bound and with a funded account in the map.
C17_Witness ==
    /\ pc = "panic"
    /\ transaction.type = "Widthdrawal"
    /\ transaction.amount = None
    /\ nread < MaxRecords
    /\ \E c \in DOMAIN clients : clients[c].total > 0

-----------------------------------------------------------------------------
\* parse_data is one sequential loop: as long as a step is possible (a record
\* to read, or the end of the stream to take), one is taken.
FairSpec == Spec /\ WF_vars(Next)

\* A stream item that breaks the schema: an item that does not deserialize, or
\* a Deposit or Widthdrawal without amount.
Malformed(t) ==
    \/ t = StreamErr
    \/ (t.type \in {"Deposit", "Widthdrawal"} /\ t.amount = None)

\* C18: the run over a finite stream terminates, and in one of two ways only:
\* it leaves the loop at the end of the stream, every record read having been
\* processed, or it halts at the first malformed record. A well-formed record,
\* rejected for a business rule or not, never halts the run: the loop goes on
\* to the next record.
C18_Step ==
    /\ (nread' = nread + 1 /\ ~Malformed(transaction')) => pc' = "parsing"
    /\ (nread' = nread + 1 /\ Malformed(transaction')) => pc' \in {"error", "panic"}
    /\ pc' # pc =>
           /\ pc = "parsing"
           /\ \/ pc' = "output" /\ nread' = nread /\ transaction' = transaction
              \/ pc' \in {"error", "panic"} /\ nread' = nread + 1
                     /\ Malformed(transaction')
    /\ pc # "parsing" => UNCHANGED vars

C18_RunTerminates ==
    /\ [][C18_Step]_vars
    /\ [](nread <= MaxRecords)
    /\ <>(pc \in {"output", "error", "panic"})

\* The run has left the loop at the end of a stream of MaxRecords records, the
\* last of which was a Dispute rejected for lack of funds.
C18_Witness ==
    /\ pc = "output"
    /\ nread = MaxRecords
    /\ transaction.type = "Dispute"
    /\ ~transaction.succeeded
    /\ transaction.tx \in DOMAIN past_transactions
    /\ past_transactions[transaction.tx].type = "Deposit"

\* C19: records are applied in arrival order, one per step, with no later
\* reconciliation or retry. The disputed set and the held funds change only by
\* the record being processed, when it is an accepted Dispute, Resolve or
\* Chargeback, and only for its own tx id and client; so a Dispute rejected
\* when it arrived is not applied by a later record that makes its
\* precondition true: the Deposit of the tx id that follows it has the effect
\* of a Deposit and nothing more.
C19_OnlyTheCurrentRecord ==
    /\ nread' = nread + 1 \/ (nread' = nread /\ pc' = "output")
    /\ disputed_transactions' # disputed_transactions =>
           /\ nread' = nread + 1
           /\ transaction'.type \in {"Dispute", "Resolve", "Chargeback"}
           /\ transaction'.succeeded
           /\ \A t \in TxIds \ {transaction'.tx} :
                  /\ t \in DOMAIN disputed_transactions' <=> t \in DOMAIN disputed_transactions
                  /\ t \in DOMAIN disputed_transactions =>
                         disputed_transactions'[t] = disputed_transactions[t]
    /\ \A c \in ClientIds :
           Account(clients', c).held # Account(clients, c).held =>
               /\ nread' = nread + 1
               /\ transaction'.client = c
               /\ transaction'.type \in {"Dispute", "Resolve", "Chargeback"}
               /\ transaction'.succeeded

C19_DepositAfterRejectedDispute ==
    (/\ nread > 0
     /\ transaction.type = "Dispute"
     /\ ~transaction.succeeded
     /\ Called("Deposit")
     /\ transaction'.amount # None
     /\ transaction'.tx = transaction.tx) =>
        LET c == transaction'.client
            before == Account(clients, c)
        IN  /\ disputed_transactions' = disputed_transactions
            /\ clients'[c].available = before.available + transaction'.amount
            /\ clients'[c].total = before.total + transaction'.amount
            /\ clients'[c].held = before.held
            /\ \A d \in ClientIds \ {c} : Account(clients', d) = Account(clients, d)

C19_NoReconciliation ==
    [][C19_OnlyTheCurrentRecord /\ C19_DepositAfterRejectedDispute]_vars

\* A Dispute has just been rejected because its tx id is not in history yet,
\* for a client with funds, and the stream may go on (with the Deposit of
\* that tx id, for one).
C19_Witness ==
    /\ pc = "parsing"
    /\ nread > 0
    /\ nread < MaxRecords
    /\ transaction.type = "Dispute"
    /\ ~transaction.succeeded
    /\ transaction.tx \notin DOMAIN past_transactions
    /\ transaction.tx \notin DOMAIN disputed_transactions
    /\ clients[transaction.client].available > 0

\* C20: history holds only Deposit and accepted Widthdrawal records, each
\* under its own tx id. A Dispute, Resolve or Chargeback record, accepted or
\* rejected, leaves history as it is; history changes only when a Deposit or
\* an accepted Widthdrawal stores itself; and no step removes a tx id, so the
\* set of history keys only grows.
C20_HistoryEntries ==
    \A t \in DOMAIN past_transactions :
        /\ past_transactions[t].type \in {"Deposit", "Widthdrawal"}
        /\ past_transactions[t].succeeded
        /\ past_transactions[t].tx = t

C20_Step ==
    /\ DOMAIN past_transactions \subseteq DOMAIN past_transactions'
    /\ (Called("Dispute") \/ Called("Resolve") \/ Called("Chargeback")) =>
           past_transactions' = past_transactions
    /\ past_transactions' # past_transactions =>
           /\ nread' = nread + 1
           /\ transaction'.type \in {"Deposit", "Widthdrawal"}
           /\ transaction'.succeeded
           /\ past_transactions' = Insert(past_transactions, transaction'.tx, transaction')

C20_HistoryOnlyGrows ==
    /\ []C20_HistoryEntries
    /\ [][C20_Step]_vars

\* As in test_resolve_chargeback_exists: two deposits in history, one of them
\* disputed and charged back, both entries still in history after the
\* accepted Chargeback.
C20_Witness ==
    /\ transaction.type = "Chargeback"
    /\ transaction.succeeded
    /\ transaction.tx \in DOMAIN past_transactions
    /\ DOMAIN past_transactions = TxIds
    /\ disputed_transactions = EmptyMap

\* C21: processing a record of client c changes at most the account of c.
\* Whatever the record's kind and outcome (applied, rejected, or halting the
\* run), no other client's account is created by the step and the available,
\* held, total and locked of every other account are unchanged, also when
\* the record names a tx id deposited by another client. A step that
\* processes no record changes no account.
C21_Step ==
    /\ nread' = nread + 1 =>
           \A d \in ClientIds \ {transaction'.client} :
               /\ d \in DOMAIN clients' <=> d \in DOMAIN clients
               /\ Account(clients', d) = Account(clients, d)
    /\ nread' = nread => clients' = clients

C21_OnlyTheRecordsClient == [][C21_Step]_vars

\* A Chargeback by one client has just been accepted on a Deposit made by
\* another client: the record's client is locked and the depositor's account
\* still shows the deposit, nothing held, not locked.
C21_Witness ==
    /\ transaction.type = "Chargeback"
    /\ transaction.succeeded
    /\ transaction.tx \in DOMAIN past_transactions
    /\ past_transactions[transaction.tx].client # transaction.client
    /\ past_transactions[transaction.tx].amount > 0
    /\ clients[transaction.client].locked
    /\ LET d == clients[past_transactions[transaction.tx].client]
       IN  /\ ~d.locked
           /\ d.held = 0
           /\ d.available = d.total
           /\ d.available >= past_transactions[transaction.tx].amount

\* C22: a Dispute on a tx id that is in the disputed set (its dispute is open)
\* does not hold the funds a second time: the available and held balances of
\* the record's client and the disputed set are left unchanged.
C22_DoubleDisputeNoOp ==
    [][(Called("Dispute") /\ transaction'.tx \in DOMAIN disputed_transactions) =>
           LET c == transaction'.client
           IN  /\ clients'[c].available = Account(clients, c).available
               /\ clients'[c].held = Account(clients, c).held
               /\ disputed_transactions' = disputed_transactions]_vars

\* C23: no account's held balance is ever negative (all amounts of the model
\* are non-negative).
C23_HeldNonNegative == \A c \in DOMAIN clients : clients[c].held >= 0

\* C24: no account's available balance is ever negative (all amounts of the
\* model are non-negative), because available decreases in two kinds of step
\* only, an accepted Widthdrawal and an accepted Dispute of the account's own
\* client, and both are taken only when available covers the amount taken.
C24_AvailableNonNegative == \A c \in DOMAIN clients : clients[c].available >= 0

C24_Step ==
    \A c \in DOMAIN clients' :
        clients'[c].available < Account(clients, c).available =>
            /\ nread' = nread + 1
            /\ transaction'.client = c
            /\ transaction'.type \in {"Widthdrawal", "Dispute"}
            /\ transaction'.succeeded
            /\ LET amount == IF transaction'.type = "Widthdrawal"
                             THEN transaction'.amount
                             ELSE past_transactions[transaction'.tx].amount
               IN  /\ clients[c].available >= amount
                   /\ clients'[c].available = clients[c].available - amount

C24_AvailableGuarded ==
    /\ []C24_AvailableNonNegative
    /\ [][C24_Step]_vars

\* A Widthdrawal of a positive amount has just been accepted and has taken
\* the whole available balance, while the account holds disputed funds.
C24_Witness ==
    /\ transaction.type = "Widthdrawal"
    /\ transaction.succeeded
    /\ transaction.amount > 0
    /\ clients[transaction.client].available = 0
    /\ clients[transaction.client].held > 0

\* What the arm of a record of kind `type` decides and does for the account
\* `client`, in the current history and disputed set.
Accepts(client, type, tx, amount) ==
    CASE type = "Deposit" -> TRUE
      [] type = "Widthdrawal" -> ~WidthdrawalNotEnoughFund(client, amount)
      [] type = "Dispute" -> DisputeAccepted(client, past_transactions, tx)
      [] type = "Resolve" ->
             tx \in DOMAIN ResolveLookup(past_transactions, disputed_transactions)
      [] type = "Chargeback" ->
             tx \in DOMAIN ChargebackLookup(past_transactions, disputed_transactions)

Applied(client, type, tx, amount) ==
    IF ~Accepts(client, type, tx, amount) THEN client
    ELSE CASE type = "Deposit" -> DepositClient(client, amount)
           [] type = "Widthdrawal" -> WidthdrawalClient(client, amount)
           [] type = "Dispute" -> DisputeClient(client, past_transactions[tx].amount)
           [] type = "Resolve" ->
                  ResolveClient(client,
                      ResolveLookup(past_transactions, disputed_transactions)[tx].amount)
           [] type = "Chargeback" ->
                  ChargebackClient(client,
                      ChargebackLookup(past_transactions, disputed_transactions)[tx].amount)

Balances(client) == <<client.available, client.held, client.total>>

\* C25: the locked flag gates no operation. A Deposit, Widthdrawal, Dispute,
\* Resolve or Chargeback record of a client whose account is locked is
\* accepted or rejected, and changes available, held and total, exactly as
\* its arm would on the same account with locked = false; the history and
\* the disputed set change as they would too.
C25_Step ==
    (/\ nread' = nread + 1
     /\ pc' = "parsing"
     /\ transaction'.type \in TransactionType
     /\ Account(clients, transaction'.client).locked) =>
        LET r == transaction'
            unlocked == [clients[r.client] EXCEPT !.locked = FALSE]
        IN  /\ r.succeeded = Accepts(unlocked, r.type, r.tx, r.amount)
            /\ Balances(clients'[r.client])
                   = Balances(Applied(unlocked, r.type, r.tx, r.amount))
            /\ clients'[r.client].locked
            /\ r.succeeded /\ r.type \in {"Deposit", "Widthdrawal"} =>
                   past_transactions' = Insert(past_transactions, r.tx, r)
            /\ r.succeeded /\ r.type = "Dispute" =>
                   r.tx \in DOMAIN disputed_transactions'
            /\ r.succeeded /\ r.type \in {"Resolve", "Chargeback"} =>
                   r.tx \notin DOMAIN disputed_transactions'

C25_LockedGatesNothing == [][C25_Step]_vars

\* A Widthdrawal of a positive amount has just been accepted on a locked
\* account.
C25_Witness ==
    /\ transaction.type = "Widthdrawal"
    /\ transaction.succeeded
    /\ transaction.amount > 0
    /\ clients[transaction.client].locked

====
